---- MODULE Spec2Model ----
(***************************************************************************)
(* A model of the two annotation scripts of the repository:                *)
(*   count_yolohbb.py     the counting run  (main, process_files,          *)
(*                        parse_label_line, save_results)                  *)
(*   compute_diameter.py  the diameter run  (main, process_label_file,     *)
(*                        max_point_distance, save_csv)                    *)
(*                                                                         *)
(* Numbers are fixed point: a float v of the program is the integer        *)
(* v * One, so One stands for the literal 1.0 and 1 for 0.5.  A token of a *)
(* line is a number or a non-numeric word.  The text of a file is drawn    *)
(* one line at a time, when the loop over text.splitlines() reaches it.    *)
(* Image sizes are those PIL reports for an image it can open: positive.   *)
(***************************************************************************)
EXTENDS Integers, Sequences, FiniteSets, TLC

VARIABLES
    run,          \* which script runs: "count" or "diam"
    files,        \* list(find_label_files(args.input))
    classes_map,  \* load_classes(classes_path)
    scale_pixels, \* args.scale_pixels
    scale_real,   \* args.scale_real
    pc,           \* position of the program
    fi,           \* index in files of the file being processed (0: none yet)
    li,           \* i + 1 of the last line read in the current file
    nread,        \* number of lines read in the whole run
    s,            \* the last line read (stripped)
    diag,         \* what the last step printed to sys.stderr
    counts,       \* process_files: counts of the current file
    total,        \* process_files: total
    per_file,     \* process_files: per_file
    img,          \* process_label_file: img_path, img_w, img_h
    rows,         \* process_label_file: out
    all_rows,     \* compute_diameter.main: all_rows
    diameter_px,  \* process_label_file: diameter_px of the last line
    written,      \* the rows handed to the CSV writer, unwritten while .done is FALSE
    exitcode,     \* exit status of the process, -1 while it runs
    opened,       \* number of files whose read was attempted
    failed        \* indices of the files whose read raised

vars == <<run, files, classes_map, scale_pixels, scale_real, pc, fi, li, nread, s,
          diag, counts, total, per_file, img, rows, all_rows, diameter_px,
          written, exitcode, opened, failed>>

(***************************************************************************)
(* Bounds and program constants.                                           *)
(***************************************************************************)
\* lines read in one whole run of Spec
MaxLines == 3
\* lines read from the label file of SpecGeo
MaxFileLines == 2
\* the float literal 1.0 in fixed point
One == 2

unit == "um"

(***************************************************************************)
(* Values.                                                                 *)
(***************************************************************************)
Num(v) == [ok |-> TRUE, v |-> v]
Word == [ok |-> FALSE, v |-> 0]

NoneV == [some |-> FALSE, v |-> 0]
Some(v) == [some |-> TRUE, v |-> v]

EmptyMap == [k \in {} |-> 0]
Get(m, k) == IF k \in DOMAIN m THEN m[k] ELSE 0
Put(m, k, v) == [x \in (DOMAIN m) \cup {k} |-> IF x = k THEN v ELSE m[x]]

Data(toks) == [comment |-> FALSE, toks |-> toks]
BlankLine == [comment |-> FALSE, toks |-> <<>>]
CommentLine == [comment |-> TRUE, toks |-> <<>>]

NoImage == [found |-> FALSE, name |-> "", w |-> 0, h |-> 0]
NotWritten == [done |-> FALSE, tables |-> <<>>]

MaxSet(S) == CHOOSE m \in S : \A x \in S : x <= m
MinSet(S) == CHOOSE m \in S : \A x \in S : m <= x
Max2(a, b) == IF a >= b THEN a ELSE b

RECURSIVE SortedSeq(_)
SortedSeq(S) == IF S = {} THEN <<>>
                ELSE LET m == MinSet(S) IN <<m>> \o SortedSeq(S \ {m})

RECURSIVE Flatten(_)
Flatten(ss) == IF ss = <<>> THEN <<>> ELSE Head(ss) \o Flatten(Tail(ss))

(***************************************************************************)
(* Inputs.                                                                 *)
(***************************************************************************)
Path(d, n) == [dir |-> d, name |-> n]
Paths == {Path("a", "x.txt"), Path("b", "x.txt"), Path("a", "y.txt")}

\* rglob yields each path once
FileLists == {fs \in UNION {[1..n -> Paths] : n \in 0..Cardinality(Paths)} :
                \A i, j \in DOMAIN fs : i # j => fs[i] # fs[j]}

\* order of the file names under Python's string comparison
NameRank(n) == CASE n = "x.txt" -> 1 [] n = "y.txt" -> 2 [] OTHER -> 0

ClassMaps == {EmptyMap, Put(EmptyMap, 0, "ant")}

\* read_text(utf-8) succeeds; it raises UnicodeDecodeError and read_text(latin-1)
\* succeeds; or both raise OSError
ReadOutcomes == {"utf8", "latin1", "oserror"}

Images == {NoImage,
           [found |-> TRUE, name |-> "x.png", w |-> 4, h |-> 2],
           [found |-> TRUE, name |-> "bad.png", w |-> 0, h |-> 0]}
ImageOpens(im) == im.name # "bad.png"

\* the lines of the whole-run specification
Lines == {BlankLine, CommentLine,
          Data(<<Word>>),
          Data(<<Num(0)>>),
          Data(<<Num(0), Word>>),
          Data(<<Num(-1), Num(1), Num(1), Num(3), Num(1)>>),
          Data(<<Num(3), Num(1), Num(1), Num(1), Num(1)>>),
          Data(<<Num(0), Num(1), Num(1), Num(1), Num(1), Num(1), Num(1)>>),
          Data(<<Num(0), Num(0), Num(0), Num(2), Num(0), Num(2), Num(2), Num(0), Num(2)>>)}

\* the lines of the geometry specification: boxes over every width and
\* height of BoxVals, with and without an angle, and quadrilaterals
BoxVals == {-1, 0, 1, 2, 3}
Vertices == {<<2, 0>>, <<2, 2>>, <<3, 4>>, <<-2, 0>>}
GeoLines ==
    {BlankLine, Data(<<Word>>), Data(<<Num(0), Num(1), Word>>), Data(<<Num(3)>>),
     Data(<<Num(0), Num(1), Num(1), Num(1), Num(1), Num(1), Num(1)>>)}
    \cup {Data(<<Num(3), Num(1), Num(1), Num(w), Num(h)>>) : w \in BoxVals, h \in BoxVals}
    \cup {Data(<<Num(3), Num(1), Num(1), Num(w), Num(h), Num(5)>>) : w \in BoxVals, h \in BoxVals}
    \cup {Data(<<Num(0), Num(0), Num(0), Num(p[1]), Num(p[2]), Num(q[1]), Num(q[2]), Num(0), Num(2)>>) :
            p \in Vertices, q \in Vertices}

(***************************************************************************)
(* count_yolohbb.py: the line parser.                                      *)
(***************************************************************************)
\* int(float(tok)): truncation toward zero
Trunc(v) == IF v >= 0 THEN v \div One ELSE -((-v) \div One)

AllNumeric(toks) == \A i \in DOMAIN toks : toks[i].ok

CoordsOf(toks) == [i \in 1..(Len(toks) - 1) |-> toks[i + 1].v]

ParseFailed == [ok |-> FALSE, cls |-> 0, coords |-> <<>>]

parse_label_line(toks) ==
    IF toks = <<>> THEN ParseFailed
    ELSE IF ~toks[1].ok THEN ParseFailed
    ELSE IF ~AllNumeric(Tail(toks)) THEN ParseFailed
    ELSE [ok |-> TRUE, cls |-> Trunc(toks[1].v), coords |-> CoordsOf(toks)]

\* if not s or s.startswith("#"): continue
Skipped(line) == line.comment \/ line.toks = <<>>

Diag(kind, f, line) == [kind |-> kind, file |-> f, line |-> line]

(***************************************************************************)
(* compute_diameter.py: the geometry of one line.                          *)
(***************************************************************************)
Abs(x) == IF x >= 0 THEN x ELSE -x

\* math.hypot in fixed point, rounded down
Hypot(dx, dy) == CHOOSE r \in 0..(Abs(dx) + Abs(dy)) :
                    r * r <= dx * dx + dy * dy /\ (r + 1) * (r + 1) > dx * dx + dy * dy

max_point_distance(pts) ==
    MaxSet({0} \cup {Hypot(pts[j][1] - pts[i][1], pts[j][2] - pts[i][2]) :
                       i \in DOMAIN pts, j \in DOMAIN pts})

\* (img_w and img_h)
ImageKnown(im) == im.found /\ im.w # 0 /\ im.h # 0

\* lines 102-116 with < in place of <= at line 107
BoxDiameterStrict(nums, im) ==
    LET w == nums[3]
        h == nums[4]
    IN  IF (w < One /\ h < One) /\ ImageKnown(im)
        THEN Some(Max2(w * im.w, h * im.h))
        ELSE IF w > One \/ h > One
        THEN Some(Max2(w, h))
        ELSE NoneV

\* lines 102-116: NoneV is the branch that warns and skips the line
BoxDiameter(nums, im) ==
    LET w == nums[3]
        h == nums[4]
    IN  IF (w <= One /\ h <= One) /\ ImageKnown(im)
        THEN Some(Max2(w * im.w, h * im.h))
        ELSE IF w > One \/ h > One
        THEN Some(Max2(w, h))
        ELSE NoneV

Normalized(pts) == \A i \in DOMAIN pts :
                      0 <= pts[i][1] /\ pts[i][1] <= One /\ 0 <= pts[i][2] /\ pts[i][2] <= One

\* lines 118-126
PolyDiameter(nums, im) ==
    LET pts == [j \in 1..4 |-> <<nums[2 * j - 1], nums[2 * j]>>]
        pts_px == IF Normalized(pts) /\ ImageKnown(im)
                  THEN [j \in 1..4 |-> <<pts[j][1] * im.w, pts[j][2] * im.h>>]
                  ELSE pts
    IN  Some(max_point_distance(pts_px))

\* lines 93-98 of process_label_file
ParseFields(toks) ==
    IF ~toks[1].ok \/ ~AllNumeric(Tail(toks)) THEN ParseFailed
    ELSE [ok |-> TRUE, cls |-> Trunc(toks[1].v), coords |-> CoordsOf(toks)]

Outcome(kind, cls, dpx, real) == [kind |-> kind, cls |-> cls, dpx |-> dpx, real |-> real]

\* lines 128-130 without the continue: None * float raises at line 132
UnsupportedFallsThrough(cls) == Outcome("type_error", cls, NoneV, <<0, 1>>)

\* lines 128-130: warn and continue
Unsupported(cls) == Outcome("unsupported", cls, NoneV, <<0, 1>>)

\* one iteration of the loop of process_label_file (lines 88-140)
LabelLine(line, im, sp, sr) ==
    IF Skipped(line) THEN Outcome("skip", 0, NoneV, <<0, 1>>)
    ELSE LET p == ParseFields(line.toks)
             n == Len(p.coords)
         IN  IF ~p.ok THEN Outcome("parse_error", 0, NoneV, <<0, 1>>)
             ELSE IF n \notin {4, 5, 8} THEN Unsupported(p.cls)
             ELSE LET d == IF n = 8 THEN PolyDiameter(p.coords, im)
                                    ELSE BoxDiameter(p.coords, im)
                  IN  IF ~d.some THEN Outcome("missing_image", p.cls, NoneV, <<0, 1>>)
                      ELSE IF sp = 0 THEN Outcome("zero_division", p.cls, d, <<0, 1>>)
                      ELSE Outcome("row", p.cls, d, <<d.v * sr, sp>>)

Row(im, f, o) == [image |-> IF im.found THEN im.name ELSE "",
                  label_file |-> f.name,
                  class_id |-> o.cls,
                  diameter_pixels |-> o.dpx.v,
                  real_diameter |-> o.real,
                  unit |-> unit]

(***************************************************************************)
(* The state after the arguments are parsed and the input is discovered.   *)
(***************************************************************************)
NoPath == Path("", "")

Locals ==
    /\ pc = "start" /\ fi = 0 /\ li = 0 /\ nread = 0 /\ s = BlankLine /\ diag = <<>>
    /\ counts = EmptyMap /\ total = EmptyMap /\ per_file = EmptyMap
    /\ img = NoImage /\ rows = <<>> /\ all_rows = <<>> /\ diameter_px = NoneV
    /\ written = NotWritten /\ exitcode = -1 /\ opened = 0 /\ failed = {}

InitCount ==
    /\ run = "count" /\ files \in FileLists /\ classes_map \in ClassMaps
    /\ scale_pixels = 0 /\ scale_real = 0
    /\ Locals

InitDiam ==
    /\ run = "diam" /\ files \in FileLists /\ classes_map = EmptyMap
    /\ scale_pixels \in {0, 4} /\ scale_real = 10
    /\ Locals

Init == InitCount \/ InitDiam

\* the emptiness of files left unchecked
NoInputUnchecked(fs) == FALSE

\* if not files
NoInput(fs) == fs = <<>>

\* the exit status of raise SystemExit(2)
Exit(status) ==
    /\ pc' = "exit"
    /\ exitcode' = status

(***************************************************************************)
(* count_yolohbb.py: main, process_files, save_results.                    *)
(***************************************************************************)
\* main, lines 145-149
CountMain ==
    /\ run = "count" /\ pc = "start"
    /\ IF NoInput(files)
       THEN /\ diag' = <<Diag("no_input", NoPath, 0)>>
            /\ Exit(2)
       ELSE /\ diag' = <<>>
            /\ pc' = "files"
            /\ UNCHANGED exitcode
    /\ UNCHANGED <<run, files, classes_map, scale_pixels, scale_real, fi, li, nread, s,
                   counts, total, per_file, img, rows, all_rows, diameter_px,
                   written, opened, failed>>

\* process_files, lines 58-63: the next file is read; an OSError of the
\* second read_text is caught nowhere and ends the process with a traceback
CountOpenFile ==
    /\ run = "count" /\ pc = "files" /\ fi < Len(files)
    /\ fi' = fi + 1
    /\ opened' = opened + 1
    /\ counts' = EmptyMap
    /\ li' = 0
    /\ s' = BlankLine
    /\ \E rd \in ReadOutcomes :
         IF rd = "oserror"
         THEN /\ failed' = failed \cup {fi + 1}
              /\ diag' = <<Diag("traceback", files[fi + 1], 0)>>
              /\ pc' = "crash"
              /\ exitcode' = 1
         ELSE /\ diag' = <<>>
              /\ pc' = "lines"
              /\ UNCHANGED <<failed, exitcode>>
    /\ UNCHANGED <<run, files, classes_map, scale_pixels, scale_real, nread,
                   total, per_file, img, rows, all_rows, diameter_px, written>>

\* counts[cls] += 1
IncCount(m, cls) == Put(m, cls, Get(m, cls) + 1)

\* total[cls] = 1 in place of total[cls] += 1
IncTotalAssigned(m, cls) == Put(m, cls, 1)

\* total[cls] += 1
IncTotal(m, cls) == Put(m, cls, Get(m, cls) + 1)

\* process_files, lines 64-74: one iteration over a line of LS
CountLine(LS, limit) ==
    /\ run = "count" /\ pc = "lines" /\ nread < limit
    /\ \E line \in LS :
         /\ s' = line
         /\ li' = li + 1
         /\ nread' = nread + 1
         /\ IF Skipped(line)
            THEN /\ diag' = <<>>
                 /\ UNCHANGED <<counts, total>>
            ELSE LET p == parse_label_line(line.toks)
                 IN  IF ~p.ok
                     THEN /\ diag' = <<Diag("parse", files[fi], li + 1)>>
                          /\ UNCHANGED <<counts, total>>
                     ELSE /\ diag' = <<>>
                          /\ counts' = IncCount(counts, p.cls)
                          /\ total' = IncTotal(total, p.cls)
    /\ UNCHANGED <<run, files, classes_map, scale_pixels, scale_real, pc, fi,
                   per_file, img, rows, all_rows, diameter_px, written, exitcode,
                   opened, failed>>

\* process_files, line 75: per_file[f.name] = dict(counts)
CountEndFile ==
    /\ run = "count" /\ pc = "lines"
    /\ per_file' = Put(per_file, files[fi].name, counts)
    /\ counts' = EmptyMap
    /\ li' = 0
    /\ s' = BlankLine
    /\ diag' = <<>>
    /\ pc' = "files"
    /\ UNCHANGED <<run, files, classes_map, scale_pixels, scale_real, fi, nread,
                   total, img, rows, all_rows, diameter_px, written, exitcode,
                   opened, failed>>

\* classes_map.get(cls, "")
ClassName(cm, cls) == IF cls \in DOMAIN cm THEN cm[cls] ELSE ""

\* sorted(per_file.items())
SortedNames(pf) ==
    LET ranks == SortedSeq({NameRank(n) : n \in DOMAIN pf})
    IN  [i \in DOMAIN ranks |-> CHOOSE n \in DOMAIN pf : NameRank(n) = ranks[i]]

\* save_results, lines 105-108
PerFileRows(pf, cm) ==
    LET names == SortedNames(pf)
    IN  Flatten([i \in DOMAIN names |->
                   LET cs == SortedSeq(DOMAIN pf[names[i]])
                   IN  [j \in DOMAIN cs |-> <<names[i], cs[j], ClassName(cm, cs[j]), pf[names[i]][cs[j]]>>]])

\* save_results, lines 114-116
TotalRows(tot, cm) ==
    LET cs == SortedSeq(DOMAIN tot)
    IN  [j \in DOMAIN cs |-> <<cs[j], ClassName(cm, cs[j]), tot[cs[j]]>>]

\* main, line 150, after process_files returned: save_results
CountSave ==
    /\ run = "count" /\ pc = "files" /\ fi = Len(files)
    /\ written' = [done |-> TRUE,
                   tables |-> <<PerFileRows(per_file, classes_map), TotalRows(total, classes_map)>>]
    /\ diag' = <<>>
    /\ pc' = "done"
    /\ exitcode' = 0
    /\ UNCHANGED <<run, files, classes_map, scale_pixels, scale_real, fi, li, nread, s,
                   counts, total, per_file, img, rows, all_rows, diameter_px,
                   opened, failed>>

(***************************************************************************)
(* compute_diameter.py: main, process_label_file, save_csv.                *)
(***************************************************************************)
\* main, lines 165-170
DiamMain ==
    /\ run = "diam" /\ pc = "start"
    /\ IF NoInput(files)
       THEN /\ diag' = <<Diag("no_input", NoPath, 0)>>
            /\ Exit(2)
       ELSE /\ diag' = <<>>
            /\ pc' = "files"
            /\ UNCHANGED exitcode
    /\ UNCHANGED <<run, files, classes_map, scale_pixels, scale_real, fi, li, nread, s,
                   counts, total, per_file, img, rows, all_rows, diameter_px,
                   written, opened, failed>>

\* main, lines 171-176, and process_label_file, lines 75-86: the image is
\* looked up and opened, the label file is read; what either raises is
\* caught by main, which prints the error and goes on to the next file
DiamOpenFile ==
    /\ run = "diam" /\ pc = "files" /\ fi < Len(files)
    /\ fi' = fi + 1
    /\ rows' = <<>>
    /\ li' = 0
    /\ s' = BlankLine
    /\ diameter_px' = NoneV
    /\ \E im \in Images, rd \in ReadOutcomes :
         IF ~ImageOpens(im)
         THEN /\ diag' = <<Diag("error", files[fi + 1], 0)>>
              /\ img' = NoImage
              /\ pc' = "files"
              /\ UNCHANGED <<opened, failed>>
         ELSE IF rd = "oserror"
         THEN /\ diag' = <<Diag("error", files[fi + 1], 0)>>
              /\ img' = NoImage
              /\ opened' = opened + 1
              /\ failed' = failed \cup {fi + 1}
              /\ pc' = "files"
         ELSE /\ diag' = <<>>
              /\ img' = im
              /\ opened' = opened + 1
              /\ pc' = "lines"
              /\ UNCHANGED failed
    /\ UNCHANGED <<run, files, classes_map, scale_pixels, scale_real, nread,
                   counts, total, per_file, all_rows, written, exitcode>>

\* the outcomes that raise out of process_label_file
Raises(kind) == kind \in {"zero_division", "type_error"}

\* process_label_file, lines 88-140: one iteration over a line of LS; an
\* exception leaves the function without its rows and is caught by main
DiamLine(LS, limit) ==
    /\ run = "diam" /\ pc = "lines" /\ nread < limit
    /\ \E line \in LS :
         LET o == LabelLine(line, img, scale_pixels, scale_real)
         IN  /\ s' = line
             /\ li' = li + 1
             /\ nread' = nread + 1
             /\ diameter_px' = o.dpx
             /\ IF Raises(o.kind)
                THEN /\ diag' = <<Diag("error", files[fi], 0)>>
                     /\ rows' = <<>>
                     /\ pc' = "files"
                ELSE IF o.kind = "row"
                THEN /\ diag' = <<>>
                     /\ rows' = Append(rows, Row(img, files[fi], o))
                     /\ pc' = "lines"
                ELSE IF o.kind = "skip"
                THEN /\ diag' = <<>>
                     /\ UNCHANGED <<rows, pc>>
                ELSE /\ diag' = <<Diag(o.kind, files[fi], li + 1)>>
                     /\ UNCHANGED <<rows, pc>>
    /\ UNCHANGED <<run, files, classes_map, scale_pixels, scale_real, fi,
                   counts, total, per_file, img, all_rows, written, exitcode,
                   opened, failed>>

\* process_label_file, line 142, and main, line 174: all_rows.extend(rows)
DiamEndFile ==
    /\ run = "diam" /\ pc = "lines"
    /\ all_rows' = all_rows \o rows
    /\ rows' = <<>>
    /\ li' = 0
    /\ s' = BlankLine
    /\ diameter_px' = NoneV
    /\ img' = NoImage
    /\ diag' = <<>>
    /\ pc' = "files"
    /\ UNCHANGED <<run, files, classes_map, scale_pixels, scale_real, fi, nread,
                   counts, total, per_file, written, exitcode, opened, failed>>

\* main, line 178: save_csv(all_rows, args.out)
DiamSave ==
    /\ run = "diam" /\ pc = "files" /\ fi = Len(files)
    /\ written' = [done |-> TRUE, tables |-> <<all_rows>>]
    /\ diag' = <<>>
    /\ pc' = "done"
    /\ exitcode' = 0
    /\ UNCHANGED <<run, files, classes_map, scale_pixels, scale_real, fi, li, nread, s,
                   counts, total, per_file, img, rows, all_rows, diameter_px,
                   opened, failed>>

(***************************************************************************)
(* The specifications.  Spec: a whole run of either script over the lines  *)
(* of Lines.  SpecGeo: the diameter run over one label file, its lines     *)
(* drawn from GeoLines.                                                    *)
(***************************************************************************)
Next ==
    \/ CountMain
    \/ CountOpenFile
    \/ CountLine(Lines, MaxLines)
    \/ CountEndFile
    \/ CountSave
    \/ DiamMain
    \/ DiamOpenFile
    \/ DiamLine(Lines, MaxLines)
    \/ DiamEndFile
    \/ DiamSave

Spec == Init /\ [][Next]_vars

InitGeo ==
    /\ run = "diam" /\ files = <<Path("a", "x.txt")>> /\ classes_map = EmptyMap
    /\ scale_pixels \in {0, 4} /\ scale_real = 10
    /\ Locals

NextGeo ==
    \/ DiamMain
    \/ DiamOpenFile
    \/ DiamLine(GeoLines, MaxFileLines)
    \/ DiamEndFile
    \/ DiamSave

SpecGeo == InitGeo /\ [][NextGeo]_vars

(***************************************************************************)
(* Vocabulary of the properties.                                           *)
(***************************************************************************)
\* the step is one iteration of the line loop of the counting run
CountLineStep == run = "count" /\ pc = "lines" /\ nread' = nread + 1

\* the step is one iteration of the line loop of process_label_file
DiamLineStep == run = "diam" /\ pc = "lines" /\ nread' = nread + 1

\* every token of the line is a number
NumericLine(line) == ~line.comment /\ line.toks # <<>> /\ \A i \in DOMAIN line.toks : line.toks[i].ok

\* the number of coordinate tokens after the class id
NCoords(line) == Len(line.toks) - 1

ClassOnlyLine(line) == NumericLine(line) /\ NCoords(line) = 0

BoxLine(line) == NumericLine(line) /\ NCoords(line) \in {4, 5}

QuadLine(line) == NumericLine(line) /\ NCoords(line) = 8

OtherCountLine(line) == NumericLine(line) /\ NCoords(line) \notin {4, 5, 8}

NormalizedQuad(line) ==
    /\ QuadLine(line)
    /\ \A i \in 2..9 : 0 <= line.toks[i].v /\ line.toks[i].v <= One

\* the class id of a numeric line: its first token, truncated toward zero
ClassOf(line) == LET v == line.toks[1].v IN IF v >= 0 THEN v \div One ELSE -((-v) \div One)

RECURSIVE SumOfTables(_, _, _)
SumOfTables(names, pf, cls) ==
    IF names = {} THEN 0
    ELSE LET n == CHOOSE x \in names : TRUE
         IN  Get(pf[n], cls) + SumOfTables(names \ {n}, pf, cls)

Classes == {0, 1}

(***************************************************************************)
(* The properties.                                                         *)
(***************************************************************************)
\* C1: in both runs, once the read of some file has failed, the process does
\* not end before every file of the sequence has been processed, and it ends
\* with the results written (the failure is caught, not fatal).
C1_ReadFailureRecovered ==
    failed # {} =>
        /\ pc # "crash"
        /\ exitcode # -1 => (fi = Len(files) /\ written.done /\ exitcode = 0)

\* C2: with scale_pixels = 0 the diameter run is fatal at configuration time:
\* no label file is read, no per-line or per-file diagnostic is printed,
\* nothing is written, and the exit status is never 0.
C2_ZeroScaleFatal ==
    (run = "diam" /\ scale_pixels = 0) =>
        /\ opened = 0
        /\ fi = 0
        /\ nread = 0
        /\ \A i \in DOMAIN diag : diag[i].kind \notin
               {"error", "parse_error", "missing_image", "unsupported"}
        /\ ~written.done
        /\ exitcode # 0

\* C3: in the counting run a line with a numeric class id and no coordinate
\* token is a parse failure: it is diagnosed with its file and line number and
\* increments neither the count of the file nor the total.
C3_ClassOnlyLineRejected ==
    [][(CountLineStep /\ ClassOnlyLine(s')) =>
          /\ diag' = <<Diag("parse", files[fi], li + 1)>>
          /\ counts' = counts
          /\ total' = total]_vars

\* C4: in the diameter run (here with a valid scale) a quadrilateral line
\* whose coordinates are all in [0,1], read when no image size is known, is
\* skipped with a missing-image diagnostic and appends no record.
C4_NormalizedQuadNeedsImage ==
    [][(DiamLineStep /\ scale_pixels # 0 /\ NormalizedQuad(s') /\ ~img.found) =>
          /\ diag' = <<Diag("missing_image", files[fi], li + 1)>>
          /\ rows' = rows
          /\ diameter_px' = NoneV]_vars

\* C5: a line whose tokens all parse and whose coordinate count is not 4, 5
\* or 8 appends no record and prints exactly one diagnostic, and it changes
\* nothing that a later iteration of the same file reads: the loop stays in
\* the file, with the same image size, scale, rows and file.
C5_UnsupportedCountSkipsOneLine ==
    [][(DiamLineStep /\ OtherCountLine(s')) =>
          /\ rows' = rows
          /\ all_rows' = all_rows
          /\ diag' = <<Diag("unsupported", files[fi], li + 1)>>
          /\ pc' = "lines"
          /\ UNCHANGED <<img, scale_pixels, scale_real, fi, files>>]_vars

C5_Witness ==
    /\ run = "diam" /\ pc = "lines" /\ li = 2 /\ OtherCountLine(s) /\ NCoords(s) = 6
    /\ Len(rows) = 1
    /\ diag = <<Diag("unsupported", files[fi], 2)>>

\* C6: in the counting run a line that parses adds exactly one to the count
\* of its class in the table of the file and in the total and changes no
\* other entry; a blank, comment or failing line changes neither table, a
\* failing line printing one diagnostic with the file and the 1-based line
\* number; in every case the scan stays in the file.
C6_CountLineEffect ==
    [][CountLineStep =>
          /\ pc' = "lines" /\ fi' = fi /\ per_file' = per_file /\ li' = li + 1
          /\ IF NumericLine(s')
             THEN /\ \A c \in Classes \cup DOMAIN counts' \cup DOMAIN total' :
                        /\ Get(counts', c) = Get(counts, c) + (IF c = ClassOf(s') THEN 1 ELSE 0)
                        /\ Get(total', c) = Get(total, c) + (IF c = ClassOf(s') THEN 1 ELSE 0)
                  /\ diag' = <<>>
             ELSE /\ counts' = counts
                  /\ total' = total
                  /\ diag' = IF s'.comment \/ s'.toks = <<>> THEN <<>>
                             ELSE <<Diag("parse", files[fi], li + 1)>>]_vars

C6_Witness ==
    /\ run = "count" /\ pc = "lines" /\ li = 2 /\ fi = 2
    /\ NumericLine(s) /\ ClassOf(s) = 1
    /\ Get(counts, 1) = 1 /\ Get(total, 1) = 2 /\ Get(total, 0) = 1

\* C7: a box line (4 or 5 coordinates) with width w and height h at
\* positions 2 and 3: w <= 1 and h <= 1 with a known image size gives
\* max(w*img_w, h*img_h); w > 1 or h > 1 gives max(w, h) whatever the image;
\* w <= 1 and h <= 1 without an image size is skipped with a diagnostic and
\* no record.  A record appended carries that diameter.  The angle is not
\* read.
C7_BoxDiameter ==
    [][(DiamLineStep /\ BoxLine(s')) =>
          LET w == s'.toks[4].v
              h == s'.toks[5].v
              d == IF w > One \/ h > One THEN Max2(w, h) ELSE Max2(w * img.w, h * img.h)
          IN  IF w <= One /\ h <= One /\ ~img.found
              THEN /\ rows' = rows
                   /\ diameter_px' = NoneV
                   /\ diag' = <<Diag("missing_image", files[fi], li + 1)>>
              ELSE /\ diameter_px' = Some(d)
                   /\ scale_pixels # 0 =>
                        /\ Len(rows') = Len(rows) + 1
                        /\ SubSeq(rows', 1, Len(rows)) = rows
                        /\ rows'[Len(rows')].diameter_pixels = d]_vars

C7_Witness ==
    /\ run = "diam" /\ pc = "lines" /\ li = 2 /\ BoxLine(s) /\ NCoords(s) = 5
    /\ s.toks[4].v = 1 /\ s.toks[5].v = One /\ img.found
    /\ Len(rows) = 2 /\ rows[2].diameter_pixels = 4

\* C8: with no label file discovered, either run ends at once with the
\* no-input error and a non-zero exit status: no file is opened, no line is
\* read and the output writer is never invoked.
C8_NoInputFatal ==
    files = <<>> =>
        /\ pc \in {"start", "exit"}
        /\ opened = 0 /\ fi = 0 /\ nread = 0
        /\ ~written.done
        /\ pc = "start" => exitcode = -1
        /\ pc = "exit" => (exitcode = 2 /\ diag = <<Diag("no_input", NoPath, 0)>>)

C8_Witness == files = <<>> /\ pc = "exit" /\ exitcode # 0 /\ ~written.done

\* C9: every record of process_label_file has diameter_pixels >= 0.
C9_DiameterNonNegative ==
    /\ \A i \in DOMAIN rows : rows[i].diameter_pixels >= 0
    /\ \A i \in DOMAIN all_rows : all_rows[i].diameter_pixels >= 0

\* C10: when process_files has returned, per_file holds one table for each
\* file processed, and the total of every class is the sum of its counts
\* over the tables of per_file.
C10_TotalIsSumOfPerFile ==
    (run = "count" /\ pc = "done") =>
        /\ Cardinality(DOMAIN per_file) = Len(files)
        /\ \A c \in Classes \cup DOMAIN total :
              Get(total, c) = SumOfTables(DOMAIN per_file, per_file, c)

====
